---- MODULE Spec2Model ----
(***************************************************************************)
(* Model of the binary16 <-> binary32 codec of lib/include/half_float.h.   *)
(*                                                                         *)
(* A 32-bit pattern (union FP32) is the record [Sign, u]: Sign is bit 31   *)
(* and u the low 31 bits (Exponent:8, Mantissa:23), so every integer in    *)
(* the model stays below 2^31.  A 16-bit pattern (union FP16) is the       *)
(* integer 0..65535.  Float arithmetic on the .f view is modelled on the   *)
(* bit patterns: IEEE-754 binary32, round to nearest even, subnormals kept.*)
(***************************************************************************)
EXTENDS Integers, FiniteSets, Sequences, TLC

VARIABLES
    \* one conversion under test
    side, f32, h16, fn, o16, o32,
    \* conversions called from several threads at once
    tpc, tcall, frames, tret, statics,
    \* the simulation driver: main, the simulation thread, the camera thread
    g_SignalStatus, seen, which, mainPc, gennPc, cameraPc, osf, osf2, aborted, wroteClosed,
    iT, cameraI

codecVars == <<side, f32, h16, fn, o16, o32>>

threadVars == <<tpc, tcall, frames, tret, statics>>

driverVars ==
    <<g_SignalStatus, seen, which, mainPc, gennPc, cameraPc, osf, osf2, aborted, wroteClosed,
      iT, cameraI>>

vars == <<codecVars, threadVars, driverVars>>

(***************************************************************************)
(* Bit-layout (union FP32 / union FP16)                                    *)
(***************************************************************************)
FP32 == [Sign : 0..1, u : 0..(\H7FFFFFFF)]

FP16 == 0..(\HFFFF)

MkFP32(s, e, m) == [Sign |-> s, u |-> e * 2^23 + m]

Exponent32(u) == u \div 2^23

Mantissa32(u) == u % 2^23

Exponent16(o) == (o \div 2^10) % 2^5

Mantissa16(o) == o % 2^10

Sign16(o) == (o \div 2^15) % 2

\* the 16-bit pattern with sign bit s over the low 15 bits
Pattern16(s, bits) == s * 2^15 + bits

\* o.Exponent = e (5-bit field store)
SetExponent16(o, e) == o - Exponent16(o) * 2^10 + (e % 2^5) * 2^10

\* o.Mantissa = m (10-bit field store)
SetMantissa16(o, m) == o - Mantissa16(o) + (m % 2^10)

\* o.Sign = s (1-bit field store)
SetSign16(o, s) == o - Sign16(o) * 2^15 + (s % 2) * 2^15

\* o.u++ on a uint16_t
Inc16(o) == (o + 1) % 2^16

\* o.u |= sign >> 16, with sign = f.u & 0x80000000
OrSign16(o, s) == IF s = 1 /\ Sign16(o) = 0 THEN o + 2^15 ELSE o

\* x >> n on an unsigned value
Shr(x, n) == x \div 2^n

\* assignment of an unsigned int to a uint16_t
Trunc16(x) == x % 2^16

(***************************************************************************)
(* IEEE-754 binary32 arithmetic on non-negative patterns (the sign is      *)
(* stripped before every float operation of the header).                   *)
(***************************************************************************)
IsNaN32(u) == u > 255 * 2^23

\* significand with the hidden bit, and the exponent it is scaled by:
\* value(u) = Sig32(u) * 2^(Exp32(u) - 150)
Sig32(u) == IF Exponent32(u) = 0 THEN Mantissa32(u) ELSE Mantissa32(u) + 2^23

Exp32(u) == IF Exponent32(u) = 0 THEN 1 ELSE Exponent32(u)

\* x >> d keeping a sticky bit for what was shifted out
ShiftRightSticky(x, d) ==
    IF d <= 0 THEN x
    ELSE IF d >= 31 THEN (IF x > 0 THEN 1 ELSE 0)
    ELSE LET q == x \div 2^d
             r == x % 2^d
         IN  IF r # 0 /\ q % 2 = 0 THEN q + 1 ELSE q

\* Round to nearest even and pack: the exact value is sig3 * 2^(e - 153),
\* sig3 carrying three extra low bits (guard, round, sticky).
RECURSIVE RoundPack(_, _)
RoundPack(sig3, e) ==
    IF sig3 >= 2^27 THEN RoundPack(ShiftRightSticky(sig3, 1), e + 1)
    ELSE IF sig3 < 2^26 /\ e > 1 THEN RoundPack(sig3 * 2, e - 1)
    ELSE IF e < 1 THEN RoundPack(ShiftRightSticky(sig3, 1 - e), 1)
    ELSE LET q   == sig3 \div 8
             r   == sig3 % 8
             up  == r > 4 \/ (r = 4 /\ q % 2 = 1)
             q1  == IF up THEN q + 1 ELSE q
             e1  == IF q1 >= 2^24 THEN e + 1 ELSE e
             q2  == IF q1 >= 2^24 THEN q1 \div 2 ELSE q1
         IN  IF q2 < 2^23 THEN q2                      \* subnormal or zero
             ELSE IF e1 >= 255 THEN 255 * 2^23         \* overflow to Infinity
             ELSE e1 * 2^23 + (q2 - 2^23)

\* a.f + b.f for non-negative a, b
FloatAdd(a, b) ==
    IF Exponent32(a) = 255 THEN a
    ELSE IF Exponent32(b) = 255 THEN b
    ELSE LET hi == IF Exp32(a) >= Exp32(b) THEN a ELSE b
             lo == IF Exp32(a) >= Exp32(b) THEN b ELSE a
             d  == Exp32(hi) - Exp32(lo)
         IN  RoundPack(Sig32(hi) * 8 + ShiftRightSticky(Sig32(lo) * 8, d), Exp32(hi))

\* a.f - b.f for finite a >= b >= 0
FloatSub(a, b) ==
    LET d == Exp32(a) - Exp32(b)
    IN  RoundPack(Sig32(a) * 8 - ShiftRightSticky(Sig32(b) * 8, d), Exp32(a))

\* the multiply on a host that flushes subnormal results to zero
FloatMulPow2_ftz(a, p) ==
    IF Exponent32(a) = 255 THEN a
    ELSE IF Sig32(a) = 0 THEN 0
    ELSE LET r == RoundPack(Sig32(a) * 8, Exp32(a) + Exponent32(p) - 127)
         IN  IF Exponent32(r) = 0 THEN 0 ELSE r

\* a.f * p.f for a >= 0 and p a normal power of two (Mantissa = 0)
FloatMulPow2(a, p) ==
    IF Exponent32(a) = 255 THEN a
    ELSE IF Sig32(a) = 0 THEN 0
    ELSE RoundPack(Sig32(a) * 8, Exp32(a) + Exponent32(p) - 127)

\* (float)x for an unsigned integer x < 2^31
UIntToFloat(x) == IF x = 0 THEN 0 ELSE RoundPack(x, 153)

\* a.f < b.f and a.f > b.f for non-negative a, b: false when unordered
FloatLess(a, b) == ~IsNaN32(a) /\ ~IsNaN32(b) /\ a < b

FloatGreater(a, b) == ~IsNaN32(a) /\ ~IsNaN32(b) /\ a > b

(***************************************************************************)
(* float -> half, namespace HalfFloat (first header variant)               *)
(***************************************************************************)
\* float_to_half_full whose rounding increment stays inside the mantissa field
float_to_half_full_nocarry(f) ==
    LET e == Exponent32(f.u)
        m == Mantissa32(f.u)
        newexp == e - 127 + 15
        o == IF e = 0 THEN SetExponent16(0, 0)
             ELSE IF e = 255
                  THEN SetMantissa16(SetExponent16(0, 31), IF m # 0 THEN \H200 ELSE 0)
             ELSE IF newexp >= 31 THEN SetExponent16(0, 31)
             ELSE IF newexp <= 0
                  THEN IF (14 - newexp) <= 24
                       THEN LET mant == m + \H800000
                                o1 == SetMantissa16(0, Shr(mant, 14 - newexp))
                            IN  IF Shr(mant, 13 - newexp) % 2 = 1 THEN Inc16(o1) ELSE o1
                       ELSE 0
             ELSE LET o1 == SetMantissa16(SetExponent16(0, newexp), Shr(m, 13))
                  IN  IF Shr(m, 12) % 2 = 1 /\ Mantissa16(o1) # \H3FF THEN Inc16(o1) ELSE o1
    IN  SetSign16(o, f.Sign)

\* float_to_half_full testing the last retained bit instead of the bit below it
float_to_half_full_roundbit(f) ==
    LET e == Exponent32(f.u)
        m == Mantissa32(f.u)
        newexp == e - 127 + 15
        o == IF e = 0 THEN SetExponent16(0, 0)
             ELSE IF e = 255
                  THEN SetMantissa16(SetExponent16(0, 31), IF m # 0 THEN \H200 ELSE 0)
             ELSE IF newexp >= 31 THEN SetExponent16(0, 31)
             ELSE IF newexp <= 0
                  THEN IF (14 - newexp) <= 24
                       THEN LET mant == m + \H800000
                                o1 == SetMantissa16(0, Shr(mant, 14 - newexp))
                            IN  IF Shr(mant, 14 - newexp) % 2 = 1 THEN Inc16(o1) ELSE o1
                       ELSE 0
             ELSE LET o1 == SetMantissa16(SetExponent16(0, newexp), Shr(m, 13))
                  IN  IF Shr(m, 13) % 2 = 1 THEN Inc16(o1) ELSE o1
    IN  SetSign16(o, f.Sign)

\* Original ISPC reference version; this always rounds ties up.
float_to_half_full(f) ==
    LET e == Exponent32(f.u)
        m == Mantissa32(f.u)
        newexp == e - 127 + 15
        o == IF e = 0 THEN SetExponent16(0, 0)
             ELSE IF e = 255
                  THEN SetMantissa16(SetExponent16(0, 31), IF m # 0 THEN \H200 ELSE 0)
             ELSE IF newexp >= 31 THEN SetExponent16(0, 31)
             ELSE IF newexp <= 0
                  THEN IF (14 - newexp) <= 24
                       THEN LET mant == m + \H800000
                                o1 == SetMantissa16(0, Shr(mant, 14 - newexp))
                            IN  IF Shr(mant, 13 - newexp) % 2 = 1 THEN Inc16(o1) ELSE o1
                       ELSE 0
             ELSE LET o1 == SetMantissa16(SetExponent16(0, newexp), Shr(m, 13))
                  IN  IF Shr(m, 12) % 2 = 1 THEN Inc16(o1) ELSE o1
    IN  SetSign16(o, f.Sign)

\* float_to_half_full_rtne rounding every tie up
float_to_half_full_rtne_tiesup(f) ==
    LET e == Exponent32(f.u)
        m == Mantissa32(f.u)
        newexp == e - 127 + 15
        o == IF e = 0 THEN SetExponent16(0, 0)
             ELSE IF e = 255
                  THEN SetMantissa16(SetExponent16(0, 31), IF m # 0 THEN \H200 ELSE 0)
             ELSE IF newexp >= 31 THEN SetExponent16(0, 31)
             ELSE IF newexp <= 0
                  THEN IF (14 - newexp) <= 24
                       THEN LET mant == m + \H800000
                                shift == 14 - newexp
                                o1 == SetMantissa16(0, Shr(mant, shift))
                            IN  IF mant % 2^shift >= 2^(shift - 1) THEN Inc16(o1) ELSE o1
                       ELSE 0
             ELSE LET o1 == SetMantissa16(SetExponent16(0, newexp), Shr(m, 13))
                  IN  IF Shr(m, 12) % 2 = 1 THEN Inc16(o1) ELSE o1
    IN  SetSign16(o, f.Sign)

\* float_to_half_full_rtne with the underflow test off by one: (14 - newexp) < 24
float_to_half_full_rtne_shift23(f) ==
    LET e == Exponent32(f.u)
        m == Mantissa32(f.u)
        newexp == e - 127 + 15
        o == IF e = 0 THEN SetExponent16(0, 0)
             ELSE IF e = 255
                  THEN SetMantissa16(SetExponent16(0, 31), IF m # 0 THEN \H200 ELSE 0)
             ELSE IF newexp >= 31 THEN SetExponent16(0, 31)
             ELSE IF newexp <= 0
                  THEN IF (14 - newexp) < 24
                       THEN LET mant == m + \H800000
                                shift == 14 - newexp
                                o1 == SetMantissa16(0, Shr(mant, shift))
                                lowmant == mant % 2^shift
                                halfway == 2^(shift - 1)
                            IN  IF lowmant >= halfway
                                   /\ (lowmant > halfway \/ Mantissa16(o1) % 2 = 1)
                                THEN Inc16(o1) ELSE o1
                       ELSE 0
             ELSE LET o1 == SetMantissa16(SetExponent16(0, newexp), Shr(m, 13))
                  IN  IF Shr(m, 12) % 2 = 1
                         /\ ((m % \H2000) > \H1000 \/ Mantissa16(o1) % 2 = 1)
                      THEN Inc16(o1) ELSE o1
    IN  SetSign16(o, f.Sign)

\* Same as above, but with full round-to-nearest-even.
float_to_half_full_rtne(f) ==
    LET e == Exponent32(f.u)
        m == Mantissa32(f.u)
        newexp == e - 127 + 15
        o == IF e = 0 THEN SetExponent16(0, 0)
             ELSE IF e = 255
                  THEN SetMantissa16(SetExponent16(0, 31), IF m # 0 THEN \H200 ELSE 0)
             ELSE IF newexp >= 31 THEN SetExponent16(0, 31)
             ELSE IF newexp <= 0
                  THEN IF (14 - newexp) <= 24
                       THEN LET mant == m + \H800000
                                shift == 14 - newexp
                                o1 == SetMantissa16(0, Shr(mant, shift))
                                lowmant == mant % 2^shift
                                halfway == 2^(shift - 1)
                            IN  IF lowmant >= halfway
                                   /\ (lowmant > halfway \/ Mantissa16(o1) % 2 = 1)
                                THEN Inc16(o1) ELSE o1
                       ELSE 0
             ELSE LET o1 == SetMantissa16(SetExponent16(0, newexp), Shr(m, 13))
                  IN  IF Shr(m, 12) % 2 = 1
                         /\ ((m % \H2000) > \H1000 \/ Mantissa16(o1) % 2 = 1)
                      THEN Inc16(o1) ELSE o1
    IN  SetSign16(o, f.Sign)

\* float_to_half_fast with the underflow rounding cut as well
float_to_half_fast_noround(f) ==
    LET e == Exponent32(f.u)
        m == Mantissa32(f.u)
        newexp == e - 127 + 15
        o == IF e = 255
             THEN SetMantissa16(SetExponent16(0, 31), IF m # 0 THEN \H200 ELSE 0)
             ELSE IF newexp >= 31 THEN SetExponent16(0, 31)
             ELSE IF newexp <= 0
                  THEN IF (14 - newexp) <= 24
                       THEN SetMantissa16(0, Shr(m + \H800000, 14 - newexp))
                       ELSE 0
             ELSE LET o1 == SetMantissa16(SetExponent16(0, newexp), Shr(m, 13))
                  IN  IF Shr(m, 12) % 2 = 1 THEN Inc16(o1) ELSE o1
    IN  SetSign16(o, f.Sign)

\* Almost the same, with the Exponent == 0 case cut.
float_to_half_fast(f) ==
    LET e == Exponent32(f.u)
        m == Mantissa32(f.u)
        newexp == e - 127 + 15
        o == IF e = 255
             THEN SetMantissa16(SetExponent16(0, 31), IF m # 0 THEN \H200 ELSE 0)
             ELSE IF newexp >= 31 THEN SetExponent16(0, 31)
             ELSE IF newexp <= 0
                  THEN IF (14 - newexp) <= 24
                       THEN LET mant == m + \H800000
                                o1 == SetMantissa16(0, Shr(mant, 14 - newexp))
                            IN  IF Shr(mant, 13 - newexp) % 2 = 1 THEN Inc16(o1) ELSE o1
                       ELSE 0
             ELSE LET o1 == SetMantissa16(SetExponent16(0, newexp), Shr(m, 13))
                  IN  IF Shr(m, 12) % 2 = 1 THEN Inc16(o1) ELSE o1
    IN  SetSign16(o, f.Sign)

\* f.u &= ~0xfff
ClearLow12(u) == u - (u % \H1000)

float_to_half_fast2(f) ==
    LET infty == 31 * 2^23
        magic == 15 * 2^23
        sign  == f.Sign
        u0    == f.u                          \* f.Sign = 0
        o == IF Exponent32(u0) = 255
             THEN SetMantissa16(SetExponent16(0, 31),
                                IF Mantissa32(u0) # 0 THEN \H200 ELSE 0)
             ELSE LET u1 == ClearLow12(u0)
                      u2 == FloatMulPow2(u1, magic)
                      u3 == u2 + \H1000
                      u4 == IF u3 > infty THEN infty ELSE u3
                  IN  Trunc16(Shr(u4, 13))
    IN  SetSign16(o, sign)

\* float_to_half_fast3 without the Inf / NaN classification
float_to_half_fast3_noclass(f) ==
    LET f16infty == 31 * 2^23
        magic    == 15 * 2^23
        u1 == ClearLow12(f.u)
        u2 == FloatMulPow2(u1, magic)
        u3 == IF u2 > f16infty THEN f16infty ELSE u2 + \H1000
        u4 == IF u3 > f16infty THEN f16infty ELSE u3
    IN  OrSign16(Trunc16(Shr(u4, 13)), f.Sign)

float_to_half_fast3(f) ==
    LET f32infty == 255 * 2^23
        f16infty == 31 * 2^23
        magic    == 15 * 2^23
        sign     == f.Sign                    \* f.u & sign_mask
        u0       == f.u                       \* f.u ^= sign
        o == IF u0 >= f32infty
             THEN (IF u0 > f32infty THEN \H7E00 ELSE \H7C00)
             ELSE LET u1 == ClearLow12(u0)    \* f.u &= round_mask
                      u2 == FloatMulPow2(u1, magic)
                      u3 == u2 + \H1000       \* f.u -= round_mask (mod 2^32)
                      u4 == IF u3 > f16infty THEN f16infty ELSE u3
                  IN  Trunc16(Shr(u4, 13))
    IN  OrSign16(o, sign)

\* float_to_half_fast3_rtne without "rounding bias part 2"
float_to_half_fast3_rtne_nobias2(f) ==
    LET f32infty     == 255 * 2^23
        f16max       == (127 + 16) * 2^23
        denorm_magic == ((127 - 15) + (23 - 10) + 1) * 2^23
        u0           == f.u
        o == IF u0 >= f16max
             THEN (IF u0 > f32infty THEN \H7E00 ELSE \H7C00)
             ELSE IF u0 < 113 * 2^23
                  THEN Trunc16(FloatAdd(u0, denorm_magic) - denorm_magic)
                  ELSE Trunc16(Shr(u0 + ((15 - 127) * 2^23 + \HFFF), 13))
    IN  OrSign16(o, f.Sign)

\* Same, but rounding ties to nearest even instead of towards +inf
float_to_half_fast3_rtne(f) ==
    LET f32infty     == 255 * 2^23
        f16max       == (127 + 16) * 2^23
        denorm_magic == ((127 - 15) + (23 - 10) + 1) * 2^23
        sign         == f.Sign
        u0           == f.u
        o == IF u0 >= f16max
             THEN (IF u0 > f32infty THEN \H7E00 ELSE \H7C00)
             ELSE IF u0 < 113 * 2^23
                  THEN Trunc16(FloatAdd(u0, denorm_magic) - denorm_magic)
                  ELSE LET mant_odd == Shr(u0, 13) % 2
                           u1 == u0 + ((15 - 127) * 2^23 + \HFFF)
                           u2 == u1 + mant_odd
                       IN  Trunc16(Shr(u2, 13))
    IN  OrSign16(o, sign)

\* a & b on unsigned values
RECURSIVE BitAnd(_, _)
BitAnd(a, b) ==
    IF a = 0 \/ b = 0 THEN 0
    ELSE ((a % 2) * (b % 2)) + 2 * BitAnd(a \div 2, b \div 2)

\* a ^ b on unsigned values
RECURSIVE BitXor(_, _)
BitXor(a, b) ==
    IF a = 0 THEN b
    ELSE IF b = 0 THEN a
    ELSE ((a + b) % 2) + 2 * BitXor(a \div 2, b \div 2)

\* approx_float_to_half classifying Inf / NaN the way the other converters do
approx_float_to_half_quiet(f) ==
    LET f32infty == 255 * 2^23
        f16max   == (127 + 16) * 2^23
        magic    == 15 * 2^23
        u0       == f.u
        infnan   == ~FloatLess(u0, UIntToFloat(f32infty))
        u1 == IF infnan THEN u0
              ELSE FloatMulPow2(IF FloatGreater(u0, f16max) THEN f16max ELSE u0, magic)
        o1 == IF u0 > f32infty THEN \H7E00 ELSE Trunc16(Shr(u1, 13))
    IN  OrSign16(o1, f.Sign)

\* Approximate solution.
approx_float_to_half(f) ==
    LET f32infty == 255 * 2^23
        f16max   == (127 + 16) * 2^23
        magic    == 15 * 2^23
        expinf   == 224 * 2^23                \* (255 ^ 31) << 23
        sign     == f.Sign
        u0       == f.u
        \* the compare is float against unsigned: f32infty.u is converted to float
        infnan   == ~FloatLess(u0, UIntToFloat(f32infty))
        o0 == IF infnan THEN Trunc16(BitXor(u0, expinf)) ELSE 0
        u1 == IF infnan THEN u0
              ELSE FloatMulPow2(IF FloatGreater(u0, f16max) THEN f16max ELSE u0, magic)
        o1 == Trunc16(Shr(u1, 13))            \* overwrites o0
    IN  OrSign16(o1, sign)

(***************************************************************************)
(* half -> float                                                           *)
(***************************************************************************)
\* half_to_float without the renormalizing subtract
half_to_float_norenorm(h) ==
    LET shifted_exp == \H7C00 * 2^13
        u0  == (h % \H8000) * 2^13
        exp == Exponent16(h) * 2^23
        u1  == u0 + (127 - 15) * 2^23
        u2  == IF exp = shifted_exp THEN u1 + (128 - 16) * 2^23
               ELSE IF exp = 0 THEN u1 + 2^23
               ELSE u1
    IN  [Sign |-> Sign16(h), u |-> u2]

half_to_float(h) ==
    LET magic       == 113 * 2^23
        shifted_exp == \H7C00 * 2^13
        u0  == (h % \H8000) * 2^13
        exp == Exponent16(h) * 2^23           \* shifted_exp & o.u
        u1  == u0 + (127 - 15) * 2^23
        u2  == IF exp = shifted_exp THEN u1 + (128 - 16) * 2^23
               ELSE IF exp = 0 THEN FloatSub(u1 + 2^23, magic)
               ELSE u1
    IN  [Sign |-> Sign16(h), u |-> u2]

(***************************************************************************)
(* Second header variant: the reference pair and the platform dispatcher   *)
(***************************************************************************)
float_to_half_reference(f) ==
    LET e == Exponent32(f.u)
        m == Mantissa32(f.u)
        newexp == e - 127 + 15
        o == IF e = 255
             THEN SetMantissa16(SetExponent16(0, 31), IF m # 0 THEN \H200 ELSE 0)
             ELSE IF newexp >= 31 THEN SetExponent16(0, 31)
             ELSE IF newexp <= 0
                  THEN IF (14 - newexp) <= 24
                       THEN LET mant == m + \H800000
                                o1 == SetMantissa16(0, Shr(mant, 14 - newexp))
                            IN  IF Shr(mant, 13 - newexp) % 2 = 1 THEN Inc16(o1) ELSE o1
                       ELSE 0
             ELSE LET o1 == SetMantissa16(SetExponent16(0, newexp), Shr(m, 13))
                  IN  IF Shr(m, 12) % 2 = 1 THEN Inc16(o1) ELSE o1
    IN  SetSign16(o, f.Sign)

\* half_to_float_reference without the extra exponent adjust of Inf / NaN
half_to_float_reference_noinf(h) ==
    LET magic == 113 * 2^23
        u0  == (h % \H8000) * 2^13
        exp == Exponent16(h) * 2^23
        u1  == u0 + (127 - 15) * 2^23
        u2  == IF exp = 0 THEN FloatSub(u1 + 2^23, magic) ELSE u1
    IN  [Sign |-> Sign16(h), u |-> u2]

half_to_float_reference(h) ==
    LET magic       == 113 * 2^23
        shifted_exp == \H7C00 * 2^13
        u0  == (h % \H8000) * 2^13
        exp == Exponent16(h) * 2^23
        u1  == u0 + (127 - 15) * 2^23
        u2  == IF exp = shifted_exp THEN u1 + (128 - 16) * 2^23
               ELSE IF exp = 0 THEN FloatSub(u1 + 2^23, magic)
               ELSE u1
    IN  [Sign |-> Sign16(h), u |-> u2]

\* Dispatcher, software path (the #else branches: __aarch64__ not defined)
float_to_half(f) == float_to_half_reference(f)

half_to_float_dispatch(h) == half_to_float_reference(h)

(***************************************************************************)
(* Inputs.  Every 16-bit pattern is an input of the half -> float side.    *)
(* The 32-bit inputs are both signs, the exponents on each side of every   *)
(* branch boundary of the converters, and the mantissas that have at most  *)
(* MaxMantBits bits set or at most MaxMantBits bits clear: these hold, at  *)
(* every shift amount, the exact ties with even and odd retained mantissa, *)
(* the patterns just above and below a tie, and the all-ones carries.      *)
(* MantRuns adds the mantissas whose leading bits are all ones (65504.0,   *)
(* 65520.0, 2139095040.0 are of this shape) and their two neighbours.      *)
(***************************************************************************)
MaxMantBits == 2

RECURSIVE MantUpTo(_)
MantUpTo(k) ==
    IF k = 0 THEN {0}
    ELSE LET S == MantUpTo(k - 1)
         IN  S \cup { m + 2^b : <<m, b>> \in { p \in S \X (0..22) : Shr(p[1], p[2]) % 2 = 0 } }

MantRuns ==
    LET R == { \H7FFFFF - (2^k - 1) : k \in 0..23 }
    IN  { m \in R \cup { r + 1 : r \in R } \cup { r - 1 : r \in R } : m \in 0..(\H7FFFFF) }

MantSet ==
    MantUpTo(MaxMantBits) \cup { \H7FFFFF - m : m \in MantUpTo(MaxMantBits) } \cup MantRuns

ExpSet ==
    { 0, 1,                    \* float subnormals and the smallest normals
      101, 102, 103,           \* shift amounts 25, 24, 23: the underflow boundary
      107, 112, 113, 114,      \* half subnormals, and the first half normals
      126, 127, 128,           \* around 1.0
      141, 142, 143, 144,      \* largest half normals, overflow
      156, 157, 158,           \* around (float)0x7F800000 = 2139095040.0
      160, 192, 224, 254,      \* large finite inputs
      255 }                    \* Infinity and NaN

Inputs32 == { MkFP32(s, e, m) : s \in 0..1, e \in ExpSet, m \in MantSet }

Inputs16 == FP16

Zero32 == [Sign |-> 0, u |-> 0]

(***************************************************************************)
(* The simulation driver (classol_sim.cc).  mainPc, gennPc and cameraPc    *)
(* are the source lines main, gennThreadHandler and cameraThreadHandler    *)
(* are at (0: thread not started; 137, 194, 335: function returned).       *)
(* g_SignalStatus is a volatile sig_atomic_t written by signalHandler on   *)
(* whichever thread receives the signal and read by the two loops without  *)
(* synchronisation: a load on another thread returns the old or the new    *)
(* value until the store has reached that thread, so seen[t] is the value  *)
(* the loads of thread t return.  An exception that leaves                 *)
(* cameraThreadHandler calls std::terminate (aborted).  iT counts the      *)
(* simulation steps and cameraI the camera frames (i of the for loop);     *)
(* both stop counting at MaxIter while the loops go on.                    *)
(***************************************************************************)
MaxIter == 2

Count(n) == IF n < MaxIter THEN n + 1 ELSE n

NoDriver ==
    /\ g_SignalStatus = 0
    /\ seen = [t \in {"genn", "camera"} |-> 0]
    /\ which = 0
    /\ mainPc = 0
    /\ gennPc = 0
    /\ cameraPc = 0
    /\ osf = "none"
    /\ osf2 = "none"
    /\ aborted = FALSE
    /\ wroteClosed = FALSE
    /\ iT = 0
    /\ cameraI = 0

(***************************************************************************)
(* Concurrent callers.  Each thread of Threads makes one call and runs it  *)
(* statement by statement (tpc is the source line it is at, 0 once it has  *)
(* returned) on the                                                        *)
(* automatic objects of its own call, frames[Slot(t)].  The only objects   *)
(* with static storage are the constants magic and shifted_exp of          *)
(* half_to_float.                                                          *)
(***************************************************************************)
NumThreads == 2

Threads == 1..NumThreads

ThreadCalls ==
    [fun : {"half_to_float"}, arg : {\H0001, \H03FF, \H3C00, \HFC01}]
    \cup [fun : {"float_to_half_fast3_rtne"},
          arg : {MkFP32(0, 102, 0), MkFP32(1, 127, \H3000), MkFP32(0, 142, \H7FF000),
                 MkFP32(1, 255, 1)}]

\* static const FP32 magic = { 113 << 23 }; static const unsigned int shifted_exp = 0x7c00 << 13
Statics == [magic |-> 113 * 2^23, shifted_exp |-> \H7C00 * 2^13]

\* FP32 f / FP16 h (the argument), unsigned int sign, exp, FP32 o / FP16 o
Frame(call) ==
    [h    |-> IF call.fun = "half_to_float" THEN call.arg ELSE 0,
     f    |-> IF call.fun = "half_to_float" THEN Zero32 ELSE call.arg,
     sign |-> 0,
     exp  |-> 0,
     o    |-> Zero32,
     ho   |-> 0]

\* a single shared object where each call should have its own
SlotStatic(t) == 1

\* the automatic objects of thread t's call
Slot(t) == t

FirstLine(call) == IF call.fun = "half_to_float" THEN 388 ELSE 315

NoThreads ==
    /\ tpc = [t \in Threads |-> 0]
    /\ tcall = [t \in Threads |-> [fun |-> "none", arg |-> 0]]
    /\ frames = [t \in Threads |-> 0]
    /\ tret = [t \in Threads |-> 0]
    /\ statics = Statics

NoCodec ==
    /\ side = "none"
    /\ f32 = Zero32
    /\ h16 = 0
    /\ fn = << >>
    /\ o16 = 0
    /\ o32 = Zero32

ThreadInit ==
    /\ NoCodec
    /\ tcall \in [Threads -> ThreadCalls]
    /\ tpc = [t \in Threads |-> FirstLine(tcall[t])]
    /\ frames = [t \in Threads |-> Frame(tcall[t])]
    /\ tret = [t \in Threads |-> 0]
    /\ statics = Statics
    /\ NoDriver

\* thread t executes the statement at line, leaving its frame as fr and going to next
Stmt(t, fun, line, fr, next) ==
    /\ tcall[t].fun = fun
    /\ tpc[t] = line
    /\ frames' = [frames EXCEPT ![Slot(t)] = fr]
    /\ tpc' = [tpc EXCEPT ![t] = next]
    /\ UNCHANGED <<tcall, tret, statics>>
    /\ UNCHANGED codecVars
    /\ UNCHANGED driverVars

\* thread t returns value from line
Return(t, fun, line, value) ==
    /\ tcall[t].fun = fun
    /\ tpc[t] = line
    /\ tret' = [tret EXCEPT ![t] = value]
    /\ tpc' = [tpc EXCEPT ![t] = 0]
    /\ UNCHANGED <<tcall, frames, statics>>
    /\ UNCHANGED codecVars
    /\ UNCHANGED driverVars

\* o.u = (h.u & 0x7fff) << 13
H2F_388(t) ==
    LET fr == frames[Slot(t)]
    IN  Stmt(t, "half_to_float", 388,
             [fr EXCEPT !.o = [Sign |-> 0, u |-> (fr.h % \H8000) * 2^13]], 389)

\* unsigned int exp = shifted_exp & o.u
H2F_389(t) ==
    LET fr == frames[Slot(t)]
    IN  Stmt(t, "half_to_float", 389,
             [fr EXCEPT !.exp = BitAnd(statics.shifted_exp, fr.o.u)], 390)

\* o.u += (127 - 15) << 23
H2F_390(t) ==
    LET fr == frames[Slot(t)]
    IN  Stmt(t, "half_to_float", 390,
             [fr EXCEPT !.o = [Sign |-> 0, u |-> fr.o.u + (127 - 15) * 2^23]], 393)

\* handle exponent special cases
H2F_393(t) ==
    LET fr == frames[Slot(t)]
        u  == fr.o.u
        u2 == IF fr.exp = statics.shifted_exp THEN u + (128 - 16) * 2^23
              ELSE IF fr.exp = 0 THEN FloatSub(u + 2^23, statics.magic)
              ELSE u
    IN  Stmt(t, "half_to_float", 393, [fr EXCEPT !.o = [Sign |-> 0, u |-> u2]], 401)

\* o.u |= (h.u & 0x8000) << 16
H2F_401(t) ==
    LET fr == frames[Slot(t)]
    IN  Stmt(t, "half_to_float", 401,
             [fr EXCEPT !.o = [Sign |-> Sign16(fr.h), u |-> fr.o.u]], 402)

\* return o
H2F_402(t) == Return(t, "half_to_float", 402, frames[Slot(t)].o)

\* unsigned int sign = f.u & sign_mask; f.u ^= sign
F3R_315(t) ==
    LET fr == frames[Slot(t)]
    IN  Stmt(t, "float_to_half_fast3_rtne", 315,
             [fr EXCEPT !.sign = fr.f.Sign, !.f = [Sign |-> 0, u |-> fr.f.u]], 323)

\* if (f.u >= f16max.u) o.u = (f.u > f32infty.u) ? 0x7e00 : 0x7c00
F3R_323(t) ==
    LET fr == frames[Slot(t)]
    IN  IF fr.f.u >= (127 + 16) * 2^23
        THEN Stmt(t, "float_to_half_fast3_rtne", 323,
                  [fr EXCEPT !.ho = IF fr.f.u > 255 * 2^23 THEN \H7E00 ELSE \H7C00], 350)
        ELSE Stmt(t, "float_to_half_fast3_rtne", 323, fr, 327)

\* if (f.u < (113 << 23))
F3R_327(t) ==
    LET fr == frames[Slot(t)]
    IN  Stmt(t, "float_to_half_fast3_rtne", 327, fr,
             IF fr.f.u < 113 * 2^23 THEN 332 ELSE 339)

\* f.f += denorm_magic.f
F3R_332(t) ==
    LET fr == frames[Slot(t)]
    IN  Stmt(t, "float_to_half_fast3_rtne", 332,
             [fr EXCEPT !.f = [Sign |-> 0, u |-> FloatAdd(fr.f.u, 126 * 2^23)]], 335)

\* o.u = f.u - denorm_magic.u
F3R_335(t) ==
    LET fr == frames[Slot(t)]
    IN  Stmt(t, "float_to_half_fast3_rtne", 335,
             [fr EXCEPT !.ho = Trunc16(fr.f.u - 126 * 2^23)], 350)

\* mant_odd = (f.u >> 13) & 1; f.u += ((15 - 127) << 23) + 0xfff; f.u += mant_odd; o.u = f.u >> 13
F3R_339(t) ==
    LET fr == frames[Slot(t)]
        mant_odd == Shr(fr.f.u, 13) % 2
        u2 == fr.f.u + ((15 - 127) * 2^23 + \HFFF) + mant_odd
    IN  Stmt(t, "float_to_half_fast3_rtne", 339,
             [fr EXCEPT !.f = [Sign |-> 0, u |-> u2], !.ho = Trunc16(Shr(u2, 13))], 350)

\* o.u |= sign >> 16
F3R_350(t) ==
    LET fr == frames[Slot(t)]
    IN  Stmt(t, "float_to_half_fast3_rtne", 350, [fr EXCEPT !.ho = OrSign16(fr.ho, fr.sign)], 351)

\* return o
F3R_351(t) == Return(t, "float_to_half_fast3_rtne", 351, frames[Slot(t)].ho)

ThreadNext ==
    \E t \in Threads :
        \/ H2F_388(t)
        \/ H2F_389(t)
        \/ H2F_390(t)
        \/ H2F_393(t)
        \/ H2F_401(t)
        \/ H2F_402(t)
        \/ F3R_315(t)
        \/ F3R_323(t)
        \/ F3R_327(t)
        \/ F3R_332(t)
        \/ F3R_335(t)
        \/ F3R_339(t)
        \/ F3R_350(t)
        \/ F3R_351(t)

ThreadSpec == ThreadInit /\ [][ThreadNext]_vars

(***************************************************************************)
(* The driver's threads.                                                   *)
(***************************************************************************)
\* main has opened osf and osf2 (lines 222, 224), built the model and is
\* about to install the handler; which = atoi(argv[2]) (CPU = 0, GPU = 1)
DriverInit ==
    /\ NoCodec
    /\ NoThreads
    /\ g_SignalStatus = 0
    /\ seen = [t \in {"genn", "camera"} |-> 0]
    /\ which \in 0..2
    /\ mainPc = 307
    /\ gennPc = 0
    /\ cameraPc = 0
    /\ osf = "open"
    /\ osf2 = "open"
    /\ aborted = FALSE
    /\ wroteClosed = FALSE
    /\ iT = 0
    /\ cameraI = 0

Running == ~aborted /\ mainPc # 335

\* the threads a signal can be delivered to
Alive ==
    {"main"} \cup (IF gennPc \notin {0, 137} THEN {"genn"} ELSE {})
             \cup (IF cameraPc \notin {0, 194} THEN {"camera"} ELSE {})

\* g_SignalStatus = status, run on thread t for SIGINT (status = 2)
signalHandler(t) ==
    /\ Running
    /\ mainPc > 307
    /\ t \in Alive
    /\ g_SignalStatus' = 2
    /\ seen' = IF t \in DOMAIN seen THEN [seen EXCEPT ![t] = 2] ELSE seen
    /\ UNCHANGED <<which, mainPc, gennPc, cameraPc, osf, osf2, aborted, wroteClosed, iT, cameraI>>
    /\ UNCHANGED <<codecVars, threadVars>>

\* the store reaches thread t
Propagate(t) ==
    /\ Running
    /\ seen[t] # g_SignalStatus
    /\ seen' = [seen EXCEPT ![t] = g_SignalStatus]
    /\ UNCHANGED <<g_SignalStatus, which, mainPc, gennPc, cameraPc, osf, osf2, aborted, wroteClosed, iT, cameraI>>
    /\ UNCHANGED <<codecVars, threadVars>>

MainGoto(line, next) ==
    /\ Running
    /\ mainPc = line
    /\ mainPc' = next
    /\ UNCHANGED <<g_SignalStatus, seen, which, aborted, wroteClosed, iT, cameraI>>
    /\ UNCHANGED <<codecVars, threadVars>>

\* std::signal(SIGINT, signalHandler)
Main_307 == MainGoto(307, 310) /\ UNCHANGED <<gennPc, cameraPc, osf, osf2>>

\* std::thread gennThread(gennThreadHandler, which, osf, osf2, std::ref(locust))
Main_310 == MainGoto(310, 311) /\ gennPc' = 75 /\ UNCHANGED <<cameraPc, osf, osf2>>

\* std::thread cameraThread(cameraThreadHandler, 0)
Main_311 == MainGoto(311, 312) /\ cameraPc' = 144 /\ UNCHANGED <<gennPc, osf, osf2>>

\* gennThread.join()
Main_312 == gennPc = 137 /\ MainGoto(312, 313) /\ UNCHANGED <<gennPc, cameraPc, osf, osf2>>

\* cameraThread.join(), then the summary output of lines 316-320
Main_313 == cameraPc = 194 /\ MainGoto(313, 322) /\ UNCHANGED <<gennPc, cameraPc, osf, osf2>>

\* fclose(osf)
Main_322 == MainGoto(322, 323) /\ osf' = "closed" /\ UNCHANGED <<gennPc, cameraPc, osf2>>

\* fclose(osf2)
Main_323 == MainGoto(323, 324) /\ osf2' = "closed" /\ UNCHANGED <<gennPc, cameraPc, osf>>

\* fclose(timef) ... return 0
Main_324 == MainGoto(324, 335) /\ UNCHANGED <<gennPc, cameraPc, osf, osf2>>

GennGoto(line, next) ==
    /\ Running
    /\ gennPc = line
    /\ gennPc' = next
    /\ UNCHANGED <<g_SignalStatus, seen, which, mainPc, cameraPc, osf, osf2, aborted, cameraI>>
    /\ UNCHANGED <<codecVars, threadVars>>

\* if (which == GPU)
Genn_75 == GennGoto(75, IF which = 1 THEN 76 ELSE 108) /\ UNCHANGED <<wroteClosed, iT>>

\* while (g_SignalStatus == 0), GPU loop
Genn_76 == GennGoto(76, IF seen["genn"] = 0 THEN 79 ELSE 108) /\ UNCHANGED <<wroteClosed, iT>>

\* runGPU ... outputDN_spikes(osf2, which); fprintf(osf, ...)
Genn_79 ==
    /\ GennGoto(79, 93)
    /\ iT' = Count(iT)
    /\ wroteClosed' = (wroteClosed \/ osf # "open" \/ osf2 # "open")

\* overrun, or sleep_for(sleepTime)
Genn_93 == GennGoto(93, 76) /\ UNCHANGED <<wroteClosed, iT>>

\* if (which == CPU)
Genn_108 == GennGoto(108, IF which = 0 THEN 109 ELSE 135) /\ UNCHANGED <<wroteClosed, iT>>

\* while (g_SignalStatus == 0), CPU loop
Genn_109 == GennGoto(109, IF seen["genn"] = 0 THEN 112 ELSE 135) /\ UNCHANGED <<wroteClosed, iT>>

\* runCPU ... outputDN_spikes(osf2, which)
Genn_112 ==
    /\ GennGoto(112, 122)
    /\ iT' = Count(iT)
    /\ wroteClosed' = (wroteClosed \/ osf2 # "open")

\* overrun, or sleep_for(sleepTime)
Genn_122 == GennGoto(122, 109) /\ UNCHANGED <<wroteClosed, iT>>

\* timer.stopTimer(); printf(...); return
Genn_135 == GennGoto(135, 137) /\ UNCHANGED <<wroteClosed, iT>>

CameraGoto(line, next) ==
    /\ Running
    /\ cameraPc = line
    /\ cameraPc' = next
    /\ UNCHANGED <<g_SignalStatus, seen, which, mainPc, gennPc, osf, osf2, wroteClosed, iT>>
    /\ UNCHANGED <<codecVars, threadVars>>

\* a step at line that goes to next, or throws std::runtime_error when ok is
\* false: the exception is not caught, std::terminate ends the process
CameraTry(line, next, ok) ==
    /\ CameraGoto(line, IF ok THEN next ELSE line)
    /\ aborted' = ~ok
    /\ UNCHANGED cameraI

\* cv::VideoCapture camera(device); if (!camera.isOpened()) throw
Camera_144 ==
    /\ cameraPc = 144
    /\ \E ok \in BOOLEAN : CameraTry(144, 159, ok)

\* if (!camera.read(rawFrame)) throw; create ROI, window
Camera_159 ==
    /\ cameraPc = 159
    /\ \E ok \in BOOLEAN : CameraTry(159, 173, ok)

\* for (i = 0; g_SignalStatus == 0; i++)
Camera_173 ==
    /\ CameraGoto(173, IF seen["camera"] = 0 THEN 176 ELSE 191)
    /\ UNCHANGED <<aborted, cameraI>>

\* if (!camera.read(rawFrame)) throw
Camera_176 ==
    /\ cameraPc = 176
    /\ \E ok \in BOOLEAN : CameraTry(176, 181, ok)

\* cvtColor, resize, imshow, waitKey(1); i++
Camera_181 == CameraGoto(181, 173) /\ cameraI' = Count(cameraI) /\ UNCHANGED aborted

\* printf("%f FPS\n", ...); return
Camera_191 == CameraGoto(191, 194) /\ UNCHANGED <<aborted, cameraI>>

MainStep ==
    \/ Main_307
    \/ Main_310
    \/ Main_311
    \/ Main_312
    \/ Main_313
    \/ Main_322
    \/ Main_323
    \/ Main_324

GennStep ==
    \/ Genn_75
    \/ Genn_76
    \/ Genn_79
    \/ Genn_93
    \/ Genn_108
    \/ Genn_109
    \/ Genn_112
    \/ Genn_122
    \/ Genn_135

CameraStep ==
    \/ Camera_144
    \/ Camera_159
    \/ Camera_173
    \/ Camera_176
    \/ Camera_181
    \/ Camera_191

DriverNext ==
    \/ \E t \in {"main", "genn", "camera"} : signalHandler(t)
    \/ \E t \in {"genn", "camera"} : Propagate(t)
    \/ MainStep
    \/ GennStep
    \/ CameraStep

\* every thread that can run does run, and a store reaches the other
\* threads; nothing obliges a signal to arrive
DriverSpec ==
    /\ DriverInit
    /\ [][DriverNext]_vars
    /\ WF_vars(MainStep)
    /\ WF_vars(GennStep)
    /\ WF_vars(CameraStep)
    /\ \A t \in {"genn", "camera"} : WF_vars(Propagate(t))

(***************************************************************************)
(* State: one conversion under test.  side tells which argument is the     *)
(* input (f32 for float -> half, h16 for half -> float), fn lists the      *)
(* functions called so far, o16 / o32 hold the last returned patterns.     *)
(***************************************************************************)
Init ==
    /\ fn = << >>
    /\ o16 = 0
    /\ o32 = Zero32
    /\ \/ side = "float" /\ f32 \in Inputs32 /\ h16 = 0
       \/ side = "half" /\ h16 \in Inputs16 /\ f32 = Zero32
    /\ NoThreads
    /\ NoDriver

\* o16 = conv(f32)
Narrow(name, result) ==
    /\ side = "float"
    /\ fn = << >>
    /\ fn' = <<name>>
    /\ o16' = result
    /\ UNCHANGED <<side, f32, h16, o32>>
    /\ UNCHANGED threadVars
    /\ UNCHANGED driverVars

\* o32 = conv(h16)
Widen(name, result) ==
    /\ side = "half"
    /\ fn = << >>
    /\ fn' = <<name>>
    /\ o32' = result
    /\ UNCHANGED <<side, f32, h16, o16>>
    /\ UNCHANGED threadVars
    /\ UNCHANGED driverVars

Call_float_to_half_full == Narrow("float_to_half_full", float_to_half_full(f32))

Call_float_to_half_full_rtne == Narrow("float_to_half_full_rtne", float_to_half_full_rtne(f32))

Call_float_to_half_fast == Narrow("float_to_half_fast", float_to_half_fast(f32))

Call_float_to_half_fast2 == Narrow("float_to_half_fast2", float_to_half_fast2(f32))

Call_float_to_half_fast3 == Narrow("float_to_half_fast3", float_to_half_fast3(f32))

Call_float_to_half_fast3_rtne == Narrow("float_to_half_fast3_rtne", float_to_half_fast3_rtne(f32))

Call_approx_float_to_half == Narrow("approx_float_to_half", approx_float_to_half(f32))

Call_float_to_half_reference == Narrow("float_to_half_reference", float_to_half_reference(f32))

Call_float_to_half == Narrow("float_to_half", float_to_half(f32))

Call_half_to_float == Widen("half_to_float", half_to_float(h16))

Call_half_to_float_reference == Widen("half_to_float_reference", half_to_float_reference(h16))

Call_half_to_float_dispatch == Widen("half_to_float_dispatch", half_to_float_dispatch(h16))

\* the half returned by a Reference Converter is widened again
WidenBack ==
    /\ side = "float"
    /\ Len(fn) = 1
    /\ fn[1] \in {"float_to_half_full", "float_to_half_full_rtne"}
    /\ fn' = Append(fn, "half_to_float")
    /\ o32' = half_to_float(o16)
    /\ UNCHANGED <<side, f32, h16, o16>>
    /\ UNCHANGED threadVars
    /\ UNCHANGED driverVars

\* the float returned by the Widening Converter is narrowed again, ties to even
NarrowBack ==
    /\ side = "half"
    /\ fn = <<"half_to_float">>
    /\ fn' = Append(fn, "float_to_half_full_rtne")
    /\ o16' = float_to_half_full_rtne(o32)
    /\ UNCHANGED <<side, f32, h16, o32>>
    /\ UNCHANGED threadVars
    /\ UNCHANGED driverVars

Next ==
    \/ Call_float_to_half_full
    \/ Call_float_to_half_full_rtne
    \/ Call_float_to_half_fast
    \/ Call_float_to_half_fast2
    \/ Call_float_to_half_fast3
    \/ Call_float_to_half_fast3_rtne
    \/ Call_approx_float_to_half
    \/ Call_float_to_half_reference
    \/ Call_float_to_half
    \/ Call_half_to_float
    \/ Call_half_to_float_reference
    \/ Call_half_to_float_dispatch
    \/ WidenBack
    \/ NarrowBack

Spec == Init /\ [][Next]_vars

TypeOK ==
    /\ side \in {"float", "half"}
    /\ f32 \in FP32
    /\ h16 \in FP16
    /\ o16 \in FP16
    /\ o32 \in FP32
    /\ Len(fn) <= 2


(***************************************************************************)
(* Properties                                                               *)
(***************************************************************************)
\* C1: for every 32-bit input, float_to_half_fast3_rtne returns the same
\* 16-bit pattern as float_to_half_full_rtne (host addition rounds to
\* nearest even and keeps subnormals).
C1_FastRtneMatchesFullRtne ==
    fn = <<"float_to_half_fast3_rtne">> => o16 = float_to_half_full_rtne(f32)

\* the tie at 2^-25 in the half-subnormal range, resolved to the even 0x0000
C1_Witness ==
    /\ fn = <<"float_to_half_fast3_rtne">>
    /\ f32 = [Sign |-> 0, u |-> \H33000000]
    /\ o16 = 0

\* C2 (as stated): for every 16-bit pattern h, every NaN payload included,
\* float_to_half_full_rtne(half_to_float(h)) returns exactly h.
C2_RoundTripEveryPattern ==
    fn = <<"half_to_float", "float_to_half_full_rtne">> => o16 = h16

\* C2 (amended): the round trip returns h for every h that is not a NaN, and
\* for a NaN h it returns the canonical quiet NaN sign|0x7E00.
C2_RoundTrip ==
    fn = <<"half_to_float", "float_to_half_full_rtne">> =>
        o16 = IF Exponent16(h16) = 31 /\ Mantissa16(h16) # 0
              THEN Pattern16(Sign16(h16), \H7E00)
              ELSE h16

\* the smallest negative subnormal, widened to -2^-24 and narrowed again
C2_Witness ==
    /\ fn = <<"half_to_float", "float_to_half_full_rtne">>
    /\ h16 = \H8001
    /\ o32 = [Sign |-> 1, u |-> \H33800000]
    /\ o16 = \H8001

\* C3: in every converter the sign bit of the output equals the sign bit of
\* the input, for every input pattern.
C3_SignPreserved ==
    /\ (side = "float" /\ Len(fn) = 1
        /\ fn[1] \in {"float_to_half_full", "float_to_half_full_rtne", "float_to_half_fast",
                      "float_to_half_fast2", "float_to_half_fast3", "float_to_half_fast3_rtne",
                      "approx_float_to_half", "float_to_half_reference"})
       => Sign16(o16) = f32.Sign
    /\ (side = "half" /\ Len(fn) = 1
        /\ fn[1] \in {"half_to_float", "half_to_float_reference"})
       => o32.Sign = Sign16(h16)

\* C4: on the software path the public float_to_half returns the pattern of
\* float_to_half_full_rtne, and the public half_to_float that of the
\* Widening Converter.
C4_DispatcherSoftwarePath ==
    /\ fn = <<"float_to_half">> => o16 = float_to_half_full_rtne(f32)
    /\ fn = <<"half_to_float_dispatch">> => o32 = half_to_float(h16)

\* C5: for a finite input whose result is a half normal or subnormal,
\* float_to_half_full_rtne returns the truncated pattern, plus one exactly
\* when the discarded bits are more than half a unit of the last retained
\* place, or exactly half with an odd retained mantissa; an exact tie yields
\* the pattern whose last bit is zero.
C5_RoundTiesToEven ==
    (fn = <<"float_to_half_full_rtne">> /\ Exponent32(f32.u) \in 102..142) =>
        LET e     == Exponent32(f32.u)
            shift == IF e >= 113 THEN 13 ELSE 126 - e
            keep  == IF e >= 113 THEN f32.u - 112 * 2^23 ELSE Mantissa32(f32.u) + 2^23
            trunc == keep \div 2^shift
            disc  == keep % 2^shift
            half  == 2^(shift - 1)
            up    == disc > half \/ (disc = half /\ trunc % 2 = 1)
        IN  /\ o16 = Pattern16(f32.Sign, trunc + (IF up THEN 1 ELSE 0))
            /\ disc = half => o16 % 2 = 0

\* the tie at 1 + 3 * 2^-11 between 0x3C01 and 0x3C02
C5_Witness ==
    /\ fn = <<"float_to_half_full_rtne">>
    /\ f32 = [Sign |-> 0, u |-> \H3F803000]
    /\ o16 = \H3C02

\* C6: half_to_float is exact on every 16-bit pattern: normals get exponent
\* e + 112 and mantissa m << 13, a subnormal m becomes the normal float
\* m * 2^-24, zeros stay signed zeros, Infinity and NaN get exponent 255 and
\* mantissa m << 13.
C6_WideningExact ==
    (side = "half" /\ Len(fn) = 1 /\ fn[1] \in {"half_to_float", "half_to_float_reference"}) =>
        LET e == Exponent16(h16)
            m == Mantissa16(h16)
            k == CHOOSE i \in 0..9 : 2^i <= m /\ m < 2^(i + 1)
        IN  /\ o32.Sign = Sign16(h16)
            /\ o32.u = IF e = 31 THEN 255 * 2^23 + m * 2^13
                       ELSE IF e # 0 THEN (e + 112) * 2^23 + m * 2^13
                       ELSE IF m = 0 THEN 0
                       ELSE (103 + k) * 2^23 + (m - 2^k) * 2^(23 - k)

\* the largest subnormal, 1023 * 2^-24
C6_Witness ==
    /\ fn = <<"half_to_float_reference">>
    /\ h16 = \H03FF
    /\ o32 = [Sign |-> 0, u |-> \H387FC000]

\* C7: in the non-approximate converters an input with exponent 255 gives
\* sign|0x7E00 when its mantissa is nonzero and sign|0x7C00 when it is zero.
C7_InfNaNClassification ==
    (side = "float" /\ Len(fn) = 1 /\ Exponent32(f32.u) = 255
     /\ fn[1] \in {"float_to_half_full", "float_to_half_full_rtne", "float_to_half_fast",
                   "float_to_half_fast2", "float_to_half_fast3", "float_to_half_fast3_rtne",
                   "float_to_half_reference"})
    => o16 = Pattern16(f32.Sign, IF Mantissa32(f32.u) # 0 THEN \H7E00 ELSE \H7C00)

\* a negative signaling NaN with the smallest payload
C7_Witness ==
    /\ fn = <<"float_to_half_fast3">>
    /\ f32 = [Sign |-> 1, u |-> \H7F800001]
    /\ o16 = \HFE00

\* C8: in float_to_half_full and float_to_half_full_rtne a finite input is
\* converted to signed Infinity exactly when its magnitude is at least
\* 65520.0 (0x477FF000), and 65504.0 gives 0x7BFF, which widens back to
\* 65504.0.
C8_OverflowBoundary ==
    (side = "float" /\ Len(fn) >= 1 /\ Exponent32(f32.u) < 255
     /\ fn[1] \in {"float_to_half_full", "float_to_half_full_rtne"})
    => /\ f32.u >= \H477FF000 => o16 = Pattern16(f32.Sign, \H7C00)
       /\ f32.u < \H477FF000 => Exponent16(o16) < 31
       /\ f32.u = \H477FE000 =>
            /\ o16 = Pattern16(f32.Sign, \H7BFF)
            /\ Len(fn) = 2 => o32 = f32

\* 65504.0 through the ties-away converter and back
C8_Witness ==
    /\ fn = <<"float_to_half_full", "half_to_float">>
    /\ f32 = [Sign |-> 0, u |-> \H477FE000]
    /\ o16 = \H7BFF
    /\ o32 = f32

\* C9: 2^-24 converts to 0x0001 and 0x0001 widens to 2^-24; an input whose
\* shift amount exceeds 24 converts to signed zero; an input with shift
\* amount at most 24 gives the hidden-bit mantissa shifted right, rounded by
\* the converter's policy.
C9_SubnormalBoundary ==
    /\ (side = "float" /\ Len(fn) >= 1
        /\ fn[1] \in {"float_to_half_full", "float_to_half_full_rtne"})
       => LET e     == Exponent32(f32.u)
              shift == 126 - e
              mant  == Mantissa32(f32.u) + 2^23
              trunc == mant \div 2^shift
              disc  == mant % 2^shift
              half  == 2^(shift - 1)
              up    == IF fn[1] = "float_to_half_full"
                       THEN disc >= half
                       ELSE disc > half \/ (disc = half /\ trunc % 2 = 1)
          IN  /\ f32.u = \H33800000 => o16 = Pattern16(f32.Sign, 1)
              /\ e < 102 => o16 = Pattern16(f32.Sign, 0)
              /\ e \in 102..112 => o16 = Pattern16(f32.Sign, trunc + (IF up THEN 1 ELSE 0))
    /\ (side = "half" /\ Len(fn) >= 1 /\ fn[1] = "half_to_float" /\ h16 = 1)
       => o32 = [Sign |-> 0, u |-> \H33800000]

\* 2^-24 narrowed to 0x0001 and widened back
C9_Witness ==
    /\ fn = <<"float_to_half_full_rtne", "half_to_float">>
    /\ f32 = [Sign |-> 0, u |-> \H33800000]
    /\ o16 = 1
    /\ o32 = f32

\* C10: for every finite input above 65536.0, up to the largest finite
\* float, approx_float_to_half returns sign|0x7C00.
C10_ApproxClamps ==
    (fn = <<"approx_float_to_half">> /\ f32.u > 143 * 2^23 /\ f32.u < 255 * 2^23)
    => o16 = Pattern16(f32.Sign, \H7C00)

\* C11: for a NaN input approx_float_to_half returns a pattern with exponent
\* 31 whose mantissa is the top 10 bits of the input mantissa, so it is an
\* Infinity pattern exactly when those 10 bits are all zero; an Infinity
\* input returns an Infinity pattern.
C11_ApproxNaNDeviation ==
    (fn = <<"approx_float_to_half">> /\ Exponent32(f32.u) = 255) =>
        LET m == Mantissa32(f32.u)
        IN  /\ Exponent16(o16) = 31
            /\ Mantissa16(o16) = m \div 2^13
            /\ (Mantissa16(o16) = 0) <=> (m < 2^13)
            /\ m = 0 => Mantissa16(o16) = 0

\* a signaling NaN whose payload is below the retained bits comes out as an
\* Infinity pattern
C11_Witness ==
    /\ fn = <<"approx_float_to_half">>
    /\ f32 = [Sign |-> 1, u |-> \H7F801000]
    /\ Exponent16(o16) = 31
    /\ Mantissa16(o16) = 0

\* C13: for a finite input whose result is a half normal or subnormal,
\* float_to_half_full returns the truncated pattern, plus one exactly when
\* the bit just below the retained mantissa is set, that is when the
\* discarded bits are at least half a unit (nearest, ties to the larger
\* magnitude); the increment carries into the exponent field (0x03FF to
\* 0x0400, 0x7BFF to 0x7C00) and the magnitude never exceeds 0x7C00.
C13_RoundTiesAway ==
    (fn = <<"float_to_half_full">> /\ Exponent32(f32.u) \in 102..142) =>
        LET e     == Exponent32(f32.u)
            shift == IF e >= 113 THEN 13 ELSE 126 - e
            keep  == IF e >= 113 THEN f32.u - 112 * 2^23 ELSE Mantissa32(f32.u) + 2^23
            trunc == keep \div 2^shift
            disc  == keep % 2^shift
            below == (keep \div 2^(shift - 1)) % 2
        IN  /\ o16 = Pattern16(f32.Sign, trunc + below)
            /\ (below = 1) <=> (2 * disc >= 2^shift)
            /\ (trunc = \H03FF /\ below = 1) => o16 % 2^15 = \H0400
            /\ (trunc = \H7BFF /\ below = 1) => o16 % 2^15 = \H7C00
            /\ o16 % 2^15 <= \H7C00

\* the largest half subnormal plus more than half a unit carries to 0x0400
C13_Witness ==
    /\ fn = <<"float_to_half_full">>
    /\ f32 = [Sign |-> 0, u |-> \H387FFFFF]
    /\ o16 = \H0400

\* C14: for every 32-bit input float_to_half_fast and
\* float_to_half_reference return the pattern of float_to_half_full; every
\* float subnormal and zero gives signed zero.
C14_IntegerVariantsAgree ==
    (side = "float" /\ Len(fn) = 1
     /\ fn[1] \in {"float_to_half_fast", "float_to_half_reference"}) =>
        /\ o16 = float_to_half_full(f32)
        /\ Exponent32(f32.u) = 0 => o16 = Pattern16(f32.Sign, 0)

\* the smallest negative float subnormal, without the explicit Exponent == 0 case
C14_Witness ==
    /\ fn = <<"float_to_half_fast">>
    /\ f32 = [Sign |-> 1, u |-> 1]
    /\ o16 = \H8000

\* C15: for every 32-bit input float_to_half_fast2 and float_to_half_fast3
\* return the pattern of float_to_half_full (host multiply rounds to nearest
\* even and keeps subnormal results).
C15_MagicMultiplyMatchesFull ==
    (side = "float" /\ Len(fn) = 1
     /\ fn[1] \in {"float_to_half_fast2", "float_to_half_fast3"}) =>
        o16 = float_to_half_full(f32)

\* 1.5 * 2^-24: the product is a float subnormal, the tie goes up to 0x0002
C15_Witness ==
    /\ fn = <<"float_to_half_fast2">>
    /\ f32 = [Sign |-> 0, u |-> \H33C00000]
    /\ o16 = 2

\* C12: the conversions write no shared state, so under any interleaving
\* of calls from several threads each call returns the pattern it returns
\* when run alone, and two calls with the same input return the same output.
C12_StatelessUnderConcurrency ==
    LET alone(call) == IF call.fun = "half_to_float"
                       THEN half_to_float(call.arg)
                       ELSE float_to_half_fast3_rtne(call.arg)
    IN  /\ statics = Statics
        /\ \A t \in Threads : tpc[t] = 0 => tret[t] = alone(tcall[t])
        /\ \A t1, t2 \in Threads :
              (tpc[t1] = 0 /\ tpc[t2] = 0 /\ tcall[t1] = tcall[t2]) => tret[t1] = tret[t2]

\* one call of half_to_float(0x0001) has returned 2^-24 while another call
\* with the same input is at the read of the static constant magic
C12_Witness ==
    /\ tcall[1] = [fun |-> "half_to_float", arg |-> 1]
    /\ tcall[2] = tcall[1]
    /\ tpc[1] = 0
    /\ tpc[2] = 393
    /\ tret[1] = [Sign |-> 0, u |-> \H33800000]

\* C16: once signalHandler has stored a nonzero status, the simulation
\* thread and the camera thread start no new iteration after their next
\* loop test and terminate, so both joins in main return; osf and osf2 are
\* closed only after the simulation thread has finished and no simulation
\* step writes to a closed file.
C16_Shutdown ==
    /\ [][ /\ (g_SignalStatus # 0 /\ gennPc \in {76, 109}) => gennPc' \notin {79, 112}
           /\ (g_SignalStatus # 0 /\ cameraPc = 173) => cameraPc' # 176 ]_vars
    /\ (g_SignalStatus # 0) ~> (gennPc = 137 /\ cameraPc = 194 /\ mainPc > 313)
    /\ []((osf = "closed" \/ osf2 = "closed") => gennPc = 137)
    /\ [](~wroteClosed)

====
